---- MODULE Spec2Model ----
(***************************************************************************)
(* Google-Trend-Dash: the input normaliser (src/app.py, src/utils.py), the *)
(* Trend Data Gateway (src/trend_data.py) and the Dash callbacks of        *)
(* src/app.py, as state machines.                                          *)
(*                                                                         *)
(* A Python str is a sequence of characters; a character is a one-element  *)
(* string, or the name of its code point where it is not ASCII.            *)
(***************************************************************************)
EXTENDS Integers, Sequences, FiniteSets, TLC

VARIABLES
    kw_raw,       \* _parse_keywords: the raw argument
    kw_list,      \* _parse_keywords: the returned list
    kw_trimmed,   \* run_analysis: the local `trimmed` computed from kw_raw
    kw_pc,        \* "input" before the call, "parsed" after it
    cc_input,     \* get_country_code: the argument user_input
    cc_ret,       \* get_country_code: the returned str
    cc_raised,    \* whether get_country_code let an exception out
    cc_lookups,   \* the lookups made: argument and outcome of each
    cc_pc,        \* "input" before the call, "returned" after it
    data_service, \* the TrendData instance: keywords, timeframe, geo
    gw_op,        \* the Gateway method called last
    gw_env,       \* what the provider did during that call
    gw_ret,       \* what the method returned
    gw_raised,    \* whether the method let an exception out
    gw_calls,     \* the provider calls the method made, in order
    n_clicks,             \* analyze-btn: the Analyze clicks so far
    ra,                   \* run_analysis: its arguments, locals and position
    store_time_df,        \* dcc.Store store-time-df
    store_region_df,      \* dcc.Store store-region-df
    store_related,        \* dcc.Store store-related
    alert_is_open,        \* alert-box is_open
    alert_children,       \* alert-box children
    provider_calls,       \* the provider calls of the latest fetch cycle
    pending,              \* the render callbacks triggered and not yet run
    time_series_figure,   \* time-series-graph figure
    region_map_figure,    \* region-map-graph figure
    top_regions_figure,   \* top-regions-graph figure
    related_table,        \* related-table columns and data, related-note
    download_csv,         \* download-csv data
    min_interest_slider,  \* min-interest-slider value
    topn_slider           \* topn-slider value

kwVars == <<kw_raw, kw_list, kw_trimmed, kw_pc>>
ccVars == <<cc_input, cc_ret, cc_raised, cc_lookups, cc_pc>>
gwVars == <<gw_op, gw_env, gw_ret, gw_raised, gw_calls>>
storeVars == <<store_time_df, store_region_df, store_related>>
alertVars == <<alert_is_open, alert_children>>
outputVars ==
    <<time_series_figure, region_map_figure, top_regions_figure, related_table,
      download_csv>>
sliderVars == <<min_interest_slider, topn_slider>>
appVars ==
    <<n_clicks, ra, storeVars, alertVars, provider_calls, pending, outputVars,
      sliderVars>>

----------------------------------------------------------------------------
(* Bounds *)

\* the longest comma-separated keyword input, in tokens
MaxTokens == 6

\* the longest country input, in characters
MaxCountryLen == 3

\* the Analyze clicks of one session
MaxClicks == 2

\* the Analyze clicks of one session whose renders are followed
MaxRenderedClicks == 1

\* the most rows a region table has in the top-regions specification
MaxRegions == 6

----------------------------------------------------------------------------
(* Python values *)

\* Python's None, where a str is expected
None == <<"<None>">>

\* `not x` for a str-or-None x
Falsy(x) == x = None \/ x = <<>>

Min(a, b) == IF a <= b THEN a ELSE b

\* what str.strip() removes
Whitespace == {" ", "\t"}

\* the characters of the literal passed to the second strip()
QuoteChars == {"\"", "'", "U+00E2", "U+20AC", "U+2122"}

\* the Pytrends limit on keywords per payload
MaxKeywords == 5

RECURSIVE LStrip(_, _)
LStrip(s, chars) ==
    IF s # <<>> /\ Head(s) \in chars THEN LStrip(Tail(s), chars) ELSE s

RECURSIVE RStrip(_, _)
RStrip(s, chars) ==
    IF s # <<>> /\ s[Len(s)] \in chars
    THEN RStrip(SubSeq(s, 1, Len(s) - 1), chars)
    ELSE s

\* str.strip(chars)
Strip(s, chars) == RStrip(LStrip(s, chars), chars)

\* str.split(sep) for a one-character sep: "".split(",") is [""]
RECURSIVE Split(_, _)
Split(s, sep) ==
    IF \A i \in 1..Len(s) : s[i] # sep
    THEN <<s>>
    ELSE LET k == CHOOSE i \in 1..Len(s) :
                      s[i] = sep /\ \A j \in 1..(i - 1) : s[j] # sep
         IN <<SubSeq(s, 1, k - 1)>> \o Split(SubSeq(s, k + 1, Len(s)), sep)

\* ",".join(tokens)
RECURSIVE Join(_)
Join(tokens) ==
    IF tokens = <<>> THEN <<>>
    ELSE IF Len(tokens) = 1 THEN tokens[1]
    ELSE tokens[1] \o <<",">> \o Join(Tail(tokens))

Range(s) == {s[i] : i \in 1..Len(s)}

----------------------------------------------------------------------------
(* src/app.py: _parse_keywords *)

\* one element of `parts`
CleanToken(p) == Strip(Strip(p, Whitespace), QuoteChars)

\* the loop over parts: keep p when it is non-empty and not seen before
RECURSIVE Dedup(_, _)
Dedup(parts, cleaned) ==
    IF parts = <<>> THEN cleaned
    ELSE LET p == Head(parts) IN
         IF p # <<>> /\ p \notin Range(cleaned)
         THEN Dedup(Tail(parts), Append(cleaned, p))
         ELSE Dedup(Tail(parts), cleaned)

\* cleaned[:5]
Truncate(cleaned) == SubSeq(cleaned, 1, Min(MaxKeywords, Len(cleaned)))

_parse_keywords(raw) ==
    IF Falsy(raw) THEN <<>>
    ELSE LET tokens == Split(raw, ",")
             parts == [i \in 1..Len(tokens) |-> CleanToken(tokens[i])]
         IN Truncate(Dedup(parts, <<>>))

\* run_analysis, the local `trimmed`: user_count > len(raw_list)
UserCount(keywords_raw) ==
    LET tokens == IF Falsy(keywords_raw) THEN <<>> ELSE Split(keywords_raw, ",")
    IN Cardinality({i \in 1..Len(tokens) : Strip(tokens[i], Whitespace) # <<>>})

Trimmed(keywords_raw, raw_list) ==
    IF Falsy(keywords_raw) THEN FALSE
    ELSE UserCount(keywords_raw) > Len(raw_list)

----------------------------------------------------------------------------
(* Inputs of the keyword field *)

Letters == <<"a", "b", "c", "d", "e", "f", "g", "h", "i">>

\* what the i-th token of an input may be: a fresh keyword, the keyword "a"
\* again in quotes and padding, a quoted blank, or a blank
TokenVariants(i) ==
    { <<Letters[i]>>,
      <<" ", "'", "a", "'", " ">>,
      <<"\"", " ", "\"">>,
      <<" ">> }

\* the inputs of exactly n tokens
RECURSIVE TokenSeqs(_)
TokenSeqs(n) ==
    IF n = 0 THEN {<<>>}
    ELSE {Append(ts, t) : ts \in TokenSeqs(n - 1), t \in TokenVariants(n)}

RawInputs ==
    {None} \cup UNION {{Join(ts) : ts \in TokenSeqs(n)} : n \in 0..MaxTokens}

----------------------------------------------------------------------------
(* src/utils.py: get_country_code *)

\* str.isalpha() and str.upper() on the characters the country field draws from
AlphaChars == {"n", "g", "N", "G"}

UpperChar(c) ==
    CASE c = "n" -> "N"
      [] c = "g" -> "G"
      [] OTHER -> c

Upper(s) == [i \in 1..Len(s) |-> UpperChar(s[i])]

IsAlpha(s) == s # <<>> /\ \A i \in 1..Len(s) : s[i] \in AlphaChars

\* what pycountry.countries.lookup(s) does: the reference database is an
\* external service, so any of its outcomes may follow any argument
NG == <<"N", "G">>
GH == <<"G", "H">>
LookupOutcomes ==
    {[found |-> FALSE, alpha_2 |-> <<>>]} \cup
    {[found |-> TRUE, alpha_2 |-> c] : c \in {NG, GH}}

\* LookupOrEmpty without the except clause: a failed lookup gets out
LookupUncaught(s, db) ==
    LET made == <<[arg |-> s, outcome |-> db]>> IN
    IF db.found
    THEN [ret |-> db.alpha_2, raised |-> FALSE, lookups |-> made]
    ELSE [ret |-> <<>>, raised |-> TRUE, lookups |-> made]

\* the try block, lines 13-17: LookupError (any Exception) gives ""
LookupOrEmpty(s, db) ==
    LET made == <<[arg |-> s, outcome |-> db]>> IN
    IF db.found
    THEN [ret |-> db.alpha_2, raised |-> FALSE, lookups |-> made]
    ELSE [ret |-> <<>>, raised |-> FALSE, lookups |-> made]

\* get_country_code(user_input), with db the outcome of the lookup if one is made
get_country_code(user_input, db) ==
    IF Falsy(user_input)
    THEN [ret |-> <<>>, raised |-> FALSE, lookups |-> <<>>]
    ELSE LET s == Strip(user_input, Whitespace) IN
         IF Len(s) = 2 /\ IsAlpha(s)
         THEN [ret |-> Upper(s), raised |-> FALSE, lookups |-> <<>>]
         ELSE LookupOrEmpty(s, db)

----------------------------------------------------------------------------
(* Inputs of the country field *)

CountryChars == {"n", "G", " ", "1"}

\* the strings of exactly n characters
RECURSIVE Strings(_, _)
Strings(chars, n) ==
    IF n = 0 THEN {<<>>}
    ELSE {Append(x, c) : x \in Strings(chars, n - 1), c \in chars}

CountryInputs ==
    {None} \cup UNION {Strings(CountryChars, n) : n \in 0..MaxCountryLen}

----------------------------------------------------------------------------
(* pandas and Python values the Gateway handles; each carries its type in t *)

PyNone == [t |-> "None"]

\* a table: its column labels, its row labels, its rows of cells, and the
\* request that produced its rows (0 for a table without rows)
DataFrame(columns, index, data, origin) ==
    [t |-> "DataFrame", columns |-> columns, index |-> index, data |-> data,
     origin |-> origin]

\* pd.DataFrame()
EmptyFrame == DataFrame(<<>>, <<>>, <<>>, 0)

\* isinstance(x, pd.DataFrame)
IsFrame(x) == x.t = "DataFrame"

\* df.empty
IsEmpty(df) == df.index = <<>> \/ df.columns = <<>>

\* s without its k-th element
Without(s, k) == [i \in 1..(Len(s) - 1) |-> IF i < k THEN s[i] ELSE s[i + 1]]

\* df.drop(columns=[c]), for a column c of df
DropColumn(df, c) ==
    LET k == CHOOSE i \in 1..Len(df.columns) : df.columns[i] = c IN
    [df EXCEPT !.columns = Without(df.columns, k),
               !.data = [r \in 1..Len(df.data) |-> Without(df.data[r], k)]]

\* a dict, as its set of items, and dict.get(key, default)
Dict(items) == [t |-> "dict", items |-> items]
Item(k, v) == [key |-> k, value |-> v]
DictGet(d, k, default) ==
    IF \E e \in d.items : e.key = k
    THEN (CHOOSE e \in d.items : e.key = k).value
    ELSE default

\* bool(x) for None, a dict
Truthy(x) == x.t = "dict" /\ x.items # {}

isPartial == <<"isPartial">>
ColQuery == <<"query">>
ColValue == <<"value">>
KeyTop == <<"top">>
KeyRising == <<"rising">>

----------------------------------------------------------------------------
(* The provider (pytrends.TrendReq): what each call may do *)

\* build_payload: succeeds or raises
BuildReplies == {"ok", "raise"}

\* the replies that matter after build_payload did b: none if it raised
After(b, replies) == IF b = "raise" THEN {CHOOSE o \in replies : TRUE} ELSE replies

\* interest_over_time: raises, or returns no table, an empty table, a table
\* of the payload's keywords, or that with the isPartial column
TimeReplies == {"raise", "none", "empty", "data", "partial"}

\* interest_by_region: raises, or returns no table, an empty table, a table
RegionReplies == {"raise", "none", "empty", "data"}

\* a table of related queries: absent, present but empty, or with rows
TableKinds == {"absent", "empty", "rows"}

\* related_queries: raises, or returns a dict keyed by keyword: empty, without
\* the first keyword, with None for it, or with its top and rising tables
RelatedReplies ==
    {[kind |-> k, top |-> "absent", rising |-> "absent"] :
        k \in {"raise", "nodict", "otherkey", "nobucket"}} \cup
    {[kind |-> "bucket", top |-> a, rising |-> b] :
        a \in TableKinds, b \in TableKinds}

\* one call of the provider, with the query it carries
Call(method, g) ==
    [method |-> method, kw_list |-> g.keywords,
     timeframe |-> g.timeframe, geo |-> g.geo]

\* a row holding score v for each of n keywords
ScoreRow(n, v) == [i \in 1..n |-> v]

\* the table interest_over_time answers with
ProviderFrame(g, o, origin) ==
    LET n == Len(g.keywords) IN
    CASE o = "none" -> PyNone
      [] o = "empty" -> DataFrame(<<>>, <<>>, <<>>, 0)
      [] o = "data" ->
           DataFrame(g.keywords, <<"2024-01-07">>, <<ScoreRow(n, 50)>>, origin)
      [] o = "partial" ->
           DataFrame(Append(g.keywords, isPartial), <<"2024-01-07">>,
                     <<Append(ScoreRow(n, 50), 0)>>, origin)

\* the table interest_by_region answers with
ProviderRegionFrame(g, o, origin) ==
    LET n == Len(g.keywords) IN
    CASE o = "none" -> PyNone
      [] o = "empty" -> DataFrame(<<>>, <<>>, <<>>, 0)
      [] o = "data" ->
           DataFrame(g.keywords, <<"Ghana", "Nigeria">>,
                     <<ScoreRow(n, 20), ScoreRow(n, 100)>>, origin)

RelatedTable(kind, origin) ==
    CASE kind = "absent" -> PyNone
      [] kind = "empty" -> DataFrame(<<ColQuery, ColValue>>, <<>>, <<>>, 0)
      [] kind = "rows" ->
           DataFrame(<<ColQuery, ColValue>>, <<0>>, <<<<1, 100>>>>, origin)

\* the rising table of a bucket: its rows are not those of the top table
RisingTable(kind, origin) ==
    IF kind = "rows"
    THEN DataFrame(<<ColQuery, ColValue>>, <<0>>, <<<<2, 250>>>>, origin)
    ELSE RelatedTable(kind, origin)

OtherKeyword == <<"z">>

\* the dict related_queries answers with
ProviderRelated(g, o, origin) ==
    LET bucket == Dict({Item(KeyTop, RelatedTable(o.top, origin)),
                        Item(KeyRising, RisingTable(o.rising, origin))})
    IN CASE o.kind = "nodict" -> Dict({})
         [] o.kind = "otherkey" -> Dict({Item(OtherKeyword, bucket)})
         [] o.kind = "nobucket" -> Dict({Item(g.keywords[1], PyNone)})
         [] o.kind = "bucket" -> Dict({Item(g.keywords[1], bucket)})

----------------------------------------------------------------------------
(* src/trend_data.py: TrendData *)

DefaultTimeframe == <<"today 1-m">>

\* __init__
NewTrendData ==
    [keywords |-> <<>>, timeframe |-> DefaultTimeframe, geo |-> <<>>]

set_query(keywords, timeframe, geo) ==
    [keywords |-> SelectSeq(keywords, LAMBDA k : ~Falsy(k)),
     timeframe |-> IF Falsy(timeframe) THEN DefaultTimeframe ELSE timeframe,
     geo |-> IF Falsy(geo) THEN <<>> ELSE geo]

\* what a method did: its return value, or the exception it let out, and the
\* provider calls it made
Returned(v, calls) == [ret |-> v, raised |-> FALSE, err |-> <<>>, calls |-> calls]
Raised(e, calls) == [ret |-> PyNone, raised |-> TRUE, err |-> e, calls |-> calls]

\* the text of the exception a failed provider call raises
ErrorOf(method) == <<"ResponseError in ", method>>

_build_payload(g, b) ==
    IF g.keywords # <<>>
    THEN IF b = "raise"
         THEN Raised(ErrorOf("build_payload"), <<Call("build_payload", g)>>)
         ELSE Returned(PyNone, <<Call("build_payload", g)>>)
    ELSE Returned(PyNone, <<>>)

\* the request of fetch_interest_over_time, after the no-keywords check
RequestInterestOverTime(g, b, o, origin) ==
    LET bp == _build_payload(g, b) IN
    IF bp.raised THEN bp
    ELSE LET calls == bp.calls \o <<Call("interest_over_time", g)>> IN
         IF o = "raise"
         THEN Raised(ErrorOf("interest_over_time"), calls)
         ELSE LET df == ProviderFrame(g, o, origin)
                  kept == IF IsFrame(df) /\ ~IsEmpty(df)
                             /\ isPartial \in Range(df.columns)
                          THEN DropColumn(df, isPartial)
                          ELSE df
              IN Returned(IF IsFrame(kept) THEN kept ELSE EmptyFrame,
                          calls)

\* fetch_interest_over_time without its no-keywords check
FetchTimeUnguarded(g, b, o, origin) == RequestInterestOverTime(g, b, o, origin)

fetch_interest_over_time(g, b, o, origin) ==
    IF g.keywords = <<>> THEN Returned(EmptyFrame, <<>>)
    ELSE RequestInterestOverTime(g, b, o, origin)

\* get_interest_by_region without its try block
RegionUncaught(g, b, o, origin) ==
    IF g.keywords = <<>> THEN Returned(EmptyFrame, <<>>)
    ELSE LET bp == _build_payload(g, b) IN
         IF bp.raised THEN bp
         ELSE LET calls == bp.calls \o <<Call("interest_by_region", g)>> IN
              IF o = "raise"
              THEN Raised(ErrorOf("interest_by_region"), calls)
              ELSE LET df == ProviderRegionFrame(g, o, origin)
                   IN Returned(IF IsFrame(df) THEN df ELSE EmptyFrame, calls)

get_interest_by_region(g, b, o, origin) ==
    IF g.keywords = <<>> THEN Returned(EmptyFrame, <<>>)
    ELSE LET bp == _build_payload(g, b) IN
         IF bp.raised THEN bp
         ELSE LET calls == bp.calls \o <<Call("interest_by_region", g)>> IN
              IF o = "raise"
              THEN Returned(EmptyFrame, calls)
              ELSE LET df == ProviderRegionFrame(g, o, origin)
                   IN Returned(IF IsFrame(df) THEN df ELSE EmptyFrame, calls)

get_related_queries(g, b, o, origin) ==
    IF g.keywords = <<>> THEN Returned(PyNone, <<>>)
    ELSE LET bp == _build_payload(g, b) IN
         IF bp.raised THEN bp
         ELSE LET calls == bp.calls \o <<Call("related_queries", g)>> IN
              IF o.kind = "raise"
              THEN Returned(PyNone, calls)
              ELSE Returned(ProviderRelated(g, o, origin), calls)

\* get_related_frames without lines 87-90
NoneIfEmptyKept(x) == x

\* a present-but-empty table becomes None
NoneIfEmpty(x) == IF IsFrame(x) /\ IsEmpty(x) THEN PyNone ELSE x

Frames(top_df, rising_df) == [top |-> top_df, rising |-> rising_df]

get_related_frames(g, b, o, origin) ==
    LET r == get_related_queries(g, b, o, origin) IN
    IF r.raised THEN r
    ELSE LET rq == r.ret IN
         IF Truthy(rq) /\ g.keywords # <<>>
         THEN LET got == DictGet(rq, g.keywords[1], Dict({}))
                  bucket == IF Truthy(got) THEN got ELSE Dict({})
                  top_df == DictGet(bucket, KeyTop, PyNone)
                  rising_df == DictGet(bucket, KeyRising, PyNone)
              IN Returned(Frames(NoneIfEmpty(top_df), NoneIfEmpty(rising_df)),
                          r.calls)
         ELSE Returned(Frames(PyNone, PyNone), r.calls)

----------------------------------------------------------------------------
(* Arguments of set_query *)

KwA == <<"a">>
KwB == <<"b">>
TimeframeYear == <<"today 12-m">>

QueryKeywords == {<<>>, <<KwA>>, <<KwB, KwA>>, <<<<>>, KwA>>}
QueryTimeframes == {None, <<>>, TimeframeYear}
QueryGeos == {<<>>, NG}

----------------------------------------------------------------------------
(* Specification of the keyword normaliser *)

InitKeywords ==
    /\ kw_raw \in RawInputs
    /\ kw_list = <<>>
    /\ kw_trimmed = FALSE
    /\ kw_pc = "input"

\* not in use outside SpecKeywords
IdleKeywords ==
    /\ kw_raw = None
    /\ kw_list = <<>>
    /\ kw_trimmed = FALSE
    /\ kw_pc = "off"

\* lines 246-251 of run_analysis
ParseKeywords ==
    /\ kw_pc = "input"
    /\ kw_list' = _parse_keywords(kw_raw)
    /\ kw_trimmed' = Trimmed(kw_raw, _parse_keywords(kw_raw))
    /\ kw_pc' = "parsed"
    /\ UNCHANGED <<kw_raw, ccVars, data_service, gwVars, appVars>>

----------------------------------------------------------------------------
(* Specification of the country resolver *)

InitCountry ==
    /\ cc_input \in CountryInputs
    /\ cc_ret = <<>>
    /\ cc_raised = FALSE
    /\ cc_lookups = <<>>
    /\ cc_pc = "input"

IdleCountry ==
    /\ cc_input = None
    /\ cc_ret = <<>>
    /\ cc_raised = FALSE
    /\ cc_lookups = <<>>
    /\ cc_pc = "off"

ResolveCountry ==
    /\ cc_pc = "input"
    /\ \E db \in LookupOutcomes :
          LET r == get_country_code(cc_input, db) IN
          /\ cc_ret' = r.ret
          /\ cc_raised' = r.raised
          /\ cc_lookups' = r.lookups
    /\ cc_pc' = "returned"
    /\ UNCHANGED <<cc_input, kwVars, data_service, gwVars, appVars>>

----------------------------------------------------------------------------
(* Specification of the Gateway: its methods called in any order *)

NoEnv == [build |-> "ok", data |-> "none"]

IdleGateway ==
    /\ gw_op = "none"
    /\ gw_env = NoEnv
    /\ gw_ret = PyNone
    /\ gw_raised = FALSE
    /\ gw_calls = <<>>

InitGateway ==
    /\ data_service = NewTrendData
    /\ IdleGateway

\* the outcome r of method op under provider behaviour (b, o)
Outcome(op, b, o, r) ==
    /\ gw_op' = op
    /\ gw_env' = [build |-> b, data |-> o]
    /\ gw_ret' = r.ret
    /\ gw_raised' = r.raised
    /\ gw_calls' = r.calls

SetQuery ==
    \E k \in QueryKeywords, tf \in QueryTimeframes, geo \in QueryGeos :
       /\ data_service' = set_query(k, tf, geo)
       /\ Outcome("set_query", "ok", "none", Returned(PyNone, <<>>))
       /\ UNCHANGED <<kwVars, ccVars, appVars>>

FetchInterestOverTime ==
    \E b \in BuildReplies, o \in TimeReplies :
       /\ Outcome("fetch_interest_over_time", b, o,
                  fetch_interest_over_time(data_service, b, o, 1))
       /\ UNCHANGED <<data_service, kwVars, ccVars, appVars>>

GetInterestByRegion ==
    \E b \in BuildReplies, o \in RegionReplies :
       /\ Outcome("get_interest_by_region", b, o,
                  get_interest_by_region(data_service, b, o, 1))
       /\ UNCHANGED <<data_service, kwVars, ccVars, appVars>>

GetRelatedQueries ==
    \E b \in BuildReplies, o \in RelatedReplies :
       /\ Outcome("get_related_queries", b, o.kind,
                  get_related_queries(data_service, b, o, 1))
       /\ UNCHANGED <<data_service, kwVars, ccVars, appVars>>

GetRelatedFrames ==
    \E b \in BuildReplies, o \in RelatedReplies :
       /\ Outcome("get_related_frames", b, o.kind,
                  get_related_frames(data_service, b, o, 1))
       /\ UNCHANGED <<data_service, kwVars, ccVars, appVars>>

----------------------------------------------------------------------------
(* src/app.py: what crosses the dcc.Store boundary *)

\* df.to_json(orient="split"): the columns, index and data of df as text
to_json(df) ==
    [t |-> "json", columns |-> df.columns, index |-> df.index,
     data |-> df.data, origin |-> df.origin]

\* pd.read_json(text, orient="split")
read_json(text) == DataFrame(text.columns, text.index, text.data, text.origin)

\* the dict stored in store-related
RelatedJson(top, rising) == [t |-> "related", top |-> top, rising |-> rising]

\* {} returned in place of a figure
EmptyFigure == [t |-> "empty"]

----------------------------------------------------------------------------
(* src/app.py: run_analysis *)

MsgNoKeywords == <<"Please enter at least one keyword.">>
MsgNoData ==
    <<"No trend data returned. Try a longer timeframe (e.g., 'today 12-m') or different keywords.">>
MsgNoDataNote == <<" Note: only the first 5 keywords are used.">>
MsgTrimmed == <<"Only the first 5 keywords were used.">>
MsgWrong == <<"Something went wrong: ">>

\* the five values run_analysis returns, and whether an exception got out
Outputs(time, region, related, is_open, children) ==
    [time |-> time, region |-> region, related |-> related,
     is_open |-> is_open, children |-> children, propagated |-> FALSE]

\* line 254
NoKeywordsReturn == Outputs(PyNone, PyNone, PyNone, TRUE, MsgNoKeywords)

\* an except clause that reports the failure without its text
ExceptReturnNoText(e) == Outputs(PyNone, PyNone, PyNone, TRUE, MsgWrong)

\* lines 284-285: except Exception as e
ExceptReturn(e) == Outputs(PyNone, PyNone, PyNone, TRUE, MsgWrong \o e)

\* a Store that keeps its data when the callback returns None for it
StoreKeepOnNone(old, new) == IF new = PyNone THEN old ELSE new

\* lines 226-231: a returned value replaces the Output property
StoreWrite(old, new) == new

\* the render callbacks, each triggered by a write of a Store it takes as Input
RenderCallbacks ==
    {"update_time_series", "update_region_map", "update_top_regions",
     "update_related_table"}

\* run_analysis returns out: Dash writes its five Outputs together
Return(out) ==
    /\ store_time_df' = StoreWrite(store_time_df, out.time)
    /\ store_region_df' = StoreWrite(store_region_df, out.region)
    /\ store_related' = StoreWrite(store_related, out.related)
    /\ alert_is_open' = out.is_open
    /\ alert_children' = out.children
    /\ pending' = RenderCallbacks

\* no query: what an activation that has not called set_query has stored
NoQuery == [keywords |-> <<>>, timeframe |-> <<>>, geo |-> <<>>]

\* the activation of run_analysis: where it is and the locals it still reads
\* (its arguments are read in its first step only); query is what its own
\* call of set_query stored, kept while it runs
Activation(pc, raw_list, trimmed, time_df, region_df, exc) ==
    [pc |-> pc, raw_list |-> raw_list, trimmed |-> trimmed, time_df |-> time_df,
     region_df |-> region_df, exc |-> exc, propagated |-> FALSE,
     query |-> NoQuery]

NoActivation == Activation("idle", <<>>, FALSE, PyNone, PyNone, <<>>)

\* run_analysis is over: its locals are gone; exc keeps what it caught
Finished(out, exc) ==
    [ra EXCEPT !.pc = "idle", !.time_df = PyNone, !.region_df = PyNone,
               !.exc = exc, !.propagated = out.propagated, !.query = NoQuery]

\* set_query called before the no-keywords check
QueryUnchecked(g, raw_list, timeframe, geo) == set_query(raw_list, timeframe, geo)

\* lines 253-257: the stored query after the first part of run_analysis
QueryAfterParse(g, raw_list, timeframe, geo) ==
    IF raw_list = <<>> THEN g ELSE set_query(raw_list, timeframe, geo)

\* what the user may have typed and selected when clicking Analyze
KeywordInputs ==
    { None,
      <<"a">>,
      Join(<<<<"a">>, <<" ", "'", "a", "'", " ">>>>),
      <<"\"", " ", "\"">>,
      Join(<<<<"a">>, <<"b">>, <<"c">>, <<"d">>, <<"e">>, <<"f">>>>) }
TimeframeInputs == {DefaultTimeframe, TimeframeYear}
CountryFieldInputs == {None, <<"n", "g">>, <<"n", "1">>}

\* lines 245-257: parse, the no-keywords return, the country, set_query
RunAnalysisBegin ==
    /\ ra.pc = "idle"
    /\ n_clicks < MaxClicks
    /\ \E kr \in KeywordInputs, tf \in TimeframeInputs,
          cr \in CountryFieldInputs, db \in LookupOutcomes :
          LET raw_list == _parse_keywords(kr)
              trimmed == Trimmed(kr, raw_list)
              cc == get_country_code(IF Falsy(cr) THEN <<>> ELSE cr, db)
              act == Activation("fetch_time", raw_list, trimmed, PyNone, PyNone,
                                <<>>)
          IN /\ n_clicks' = n_clicks + 1
             /\ provider_calls' = <<>>
             /\ data_service' = QueryAfterParse(data_service, raw_list, tf, cc.ret)
             /\ IF raw_list = <<>>
                THEN /\ Return(NoKeywordsReturn)
                     /\ ra' = [act EXCEPT !.pc = "idle"]
                ELSE /\ ra' = [act EXCEPT !.query = set_query(raw_list, tf, cc.ret)]
                     /\ UNCHANGED <<storeVars, alertVars, pending>>
    /\ UNCHANGED <<outputVars, sliderVars, kwVars, ccVars, gwVars>>

\* line 259, and the except clause if it raises
RunAnalysisFetchTime ==
    /\ ra.pc = "fetch_time"
    /\ \E b \in BuildReplies : \E o \in After(b, TimeReplies) :
          LET r == fetch_interest_over_time(data_service, b, o, n_clicks) IN
          /\ provider_calls' = provider_calls \o r.calls
          /\ IF r.raised
             THEN /\ Return(ExceptReturn(r.err))
                  /\ ra' = Finished(ExceptReturn(r.err), r.err)
             ELSE /\ ra' = [ra EXCEPT !.pc = "fetch_region", !.time_df = r.ret]
                  /\ UNCHANGED <<storeVars, alertVars, pending>>
    /\ UNCHANGED <<n_clicks, data_service, outputVars, sliderVars,
                   kwVars, ccVars, gwVars>>

\* line 260, and the except clause if it raises
RunAnalysisFetchRegion ==
    /\ ra.pc = "fetch_region"
    /\ \E b \in BuildReplies : \E o \in After(b, RegionReplies) :
          LET r == get_interest_by_region(data_service, b, o, n_clicks) IN
          /\ provider_calls' = provider_calls \o r.calls
          /\ IF r.raised
             THEN /\ Return(ExceptReturn(r.err))
                  /\ ra' = Finished(ExceptReturn(r.err), r.err)
             ELSE /\ ra' = [ra EXCEPT !.pc = "fetch_related", !.region_df = r.ret]
                  /\ UNCHANGED <<storeVars, alertVars, pending>>
    /\ UNCHANGED <<n_clicks, data_service, outputVars, sliderVars,
                   kwVars, ccVars, gwVars>>

\* which to_json call fails: none, or one of those that lines 266-278 make
\* when the related-queries reply is o
SerializeReplies(a, o) ==
    {"ok"}
    \cup (IF o.kind = "bucket" /\ "rows" \in {o.top, o.rising}
          THEN {"related"} ELSE {})
    \cup (IF ~IsEmpty(a.time_df) THEN {"time"} ELSE {})
    \cup (IF ~IsEmpty(a.time_df) /\ ~IsEmpty(a.region_df)
          THEN {"region"} ELSE {})

ErrorToJson == <<"to_json failed">>

\* x.to_json(...) if isinstance(x, pd.DataFrame) else None
JsonOrNone(x) == IF IsFrame(x) THEN to_json(x) ELSE PyNone

\* lines 264-283 with the 'no trend data' return taken for an empty region
\* table too
ConcludeRegionDecides(a, frames, ser) ==
    LET related_json == RelatedJson(JsonOrNone(frames.top), JsonOrNone(frames.rising))
    IN [raised |-> FALSE, err |-> <<>>,
        out |-> IF IsEmpty(a.time_df) \/ IsEmpty(a.region_df)
                THEN Outputs(PyNone, PyNone, related_json, TRUE,
                             <<"X ">> \o MsgNoData)
                ELSE Outputs(to_json(a.time_df), to_json(a.region_df),
                             related_json, FALSE, <<>>)]

\* lines 264-283, given the frames get_related_frames returned: the values
\* returned, or the exception raised on the way
Conclude(a, frames, ser) ==
    LET related_json == RelatedJson(JsonOrNone(frames.top), JsonOrNone(frames.rising))
        note == IF a.trimmed THEN MsgNoDataNote ELSE <<>>
    IN IF ser = "related" /\ (IsFrame(frames.top) \/ IsFrame(frames.rising))
       THEN [raised |-> TRUE, err |-> ErrorToJson, out |-> PyNone]
       ELSE IF IsEmpty(a.time_df)
       THEN [raised |-> FALSE, err |-> <<>>,
             out |-> Outputs(PyNone, PyNone, related_json, TRUE,
                             <<"X ">> \o MsgNoData \o note)]
       ELSE IF ser = "time" \/ (ser = "region" /\ ~IsEmpty(a.region_df))
       THEN [raised |-> TRUE, err |-> ErrorToJson, out |-> PyNone]
       ELSE LET time_json == to_json(a.time_df)
                region_json == IF ~IsEmpty(a.region_df)
                               THEN to_json(a.region_df) ELSE PyNone
            IN [raised |-> FALSE, err |-> <<>>,
                out |-> IF a.trimmed
                        THEN Outputs(time_json, region_json, related_json,
                                     TRUE, <<"i ">> \o MsgTrimmed)
                        ELSE Outputs(time_json, region_json, related_json,
                                     FALSE, <<>>)]

\* what the user of another request typed: nothing, or a keyword
PeerKeywordInputs == {None, <<"b">>}

\* lines 245-257 of a run_analysis that serves another request on the same
\* server: data_service is one object for all requests (line 18), and of the
\* steps of that activation its set_query is the one that writes it
PeerRunAnalysisBegin ==
    /\ \E kr \in PeerKeywordInputs, tf \in TimeframeInputs :
          LET raw_list == _parse_keywords(kr)
              cc == get_country_code(<<>>, CHOOSE db \in LookupOutcomes : TRUE)
          IN data_service' = QueryAfterParse(data_service, raw_list, tf, cc.ret)
    /\ UNCHANGED <<n_clicks, ra, storeVars, alertVars, provider_calls, pending,
                   outputVars, sliderVars, kwVars, ccVars, gwVars>>

\* lines 263-285, when the provider does b and o and to_json does ser
FinishWith(b, o, ser) ==
    LET r == get_related_frames(data_service, b, o, n_clicks)
        c == IF r.raised
             THEN [raised |-> TRUE, err |-> r.err, out |-> PyNone]
             ELSE Conclude(ra, r.ret, ser)
        out == IF c.raised THEN ExceptReturn(c.err) ELSE c.out
    IN /\ provider_calls' = provider_calls \o r.calls
       /\ Return(out)
       /\ ra' = Finished(out, c.err)

\* lines 263-285
RunAnalysisFinish ==
    /\ ra.pc = "fetch_related"
    /\ \E b \in BuildReplies : \E o \in After(b, RelatedReplies) :
       \E ser \in After(b, SerializeReplies(ra, o)) :
          FinishWith(b, o, ser)
    /\ UNCHANGED <<n_clicks, data_service, outputVars, sliderVars,
                   kwVars, ccVars, gwVars>>

\* what the provider answered to related_queries, kept for inspection
RelatedEnv(b, o) ==
    [build |-> b, data |-> o.kind, top |-> o.top, rising |-> o.rising]

\* lines 263-285, with the provider's related_queries answer on record
RunAnalysisFinishObserved ==
    /\ ra.pc = "fetch_related"
    /\ \E b \in BuildReplies : \E o \in After(b, RelatedReplies) :
       \E ser \in After(b, SerializeReplies(ra, o)) :
          /\ FinishWith(b, o, ser)
          /\ gw_op' = "get_related_frames"
          /\ gw_env' = RelatedEnv(b, o)
    /\ UNCHANGED <<n_clicks, data_service, outputVars, sliderVars,
                   kwVars, ccVars, gw_ret, gw_raised, gw_calls>>

----------------------------------------------------------------------------
(* src/trend_charts.py and the render callbacks of src/app.py *)

Figure(kind, title, x, y) ==
    [t |-> "figure", kind |-> kind, title |-> title, x |-> x, y |-> y]

\* fig or {}
OrEmpty(fig) == IF fig = PyNone THEN EmptyFigure ELSE fig

plot_interest_over_time(df) ==
    IF IsEmpty(df) THEN PyNone
    ELSE Figure("line", "Interest Over Time", df.index, df.columns)

\* the k-th column of df, as a sequence over its rows
Column(df, k) == [r \in 1..Len(df.data) |-> df.data[r][k]]

\* reset_index() puts the row labels first; the map colours by the column
\* after them
plot_interest_map(df_region) ==
    IF IsEmpty(df_region) THEN PyNone
    ELSE IF 1 + Len(df_region.columns) < 2 THEN PyNone
    ELSE Figure("choropleth", "Interest by Country", df_region.index,
                Column(df_region, 1))

plot_top_regions(df, keyword_colname) ==
    IF IsEmpty(df) \/ keyword_colname \notin Range(df.columns) THEN PyNone
    ELSE LET k == CHOOSE i \in 1..Len(df.columns) : df.columns[i] = keyword_colname
         IN Figure("bar", <<"Top Regions for ">> \o
                          SubSeq(keyword_colname, 1, Len(keyword_colname) - 1),
                   df.index, Column(df, k))

\* the rows of df, by position, whose k-th cell is at least m
RowsAtLeast(df, k, m) == {r \in 1..Len(df.data) : df.data[r][k] >= m}

\* sort_values(ascending=False) on column k over the rows in keep: the
\* positions of the rows, highest first. The default sort is not stable, so
\* rows with equal cells may come out in any order: every such order
RECURSIVE SortDescending(_, _, _)
SortDescending(df, k, keep) ==
    IF keep = {} THEN {<<>>}
    ELSE LET highest == {r \in keep : \A q \in keep : df.data[r][k] >= df.data[q][k]}
         IN UNION {{<<top>> \o rest : rest \in SortDescending(df, k, keep \ {top})} :
                     top \in highest}

\* the rows of df at positions order, in that order
TakeRows(df, order) ==
    [df EXCEPT !.index = [i \in 1..Len(order) |-> df.index[order[i]]],
               !.data = [i \in 1..Len(order) |-> df.data[order[i]]]]

\* head() keeping every row
HeadAll(df, n) == df

\* df.head(n)
Head_n(df, n) ==
    [df EXCEPT !.index = SubSeq(df.index, 1, Min(n, Len(df.index))),
               !.data = SubSeq(df.data, 1, Min(n, Len(df.data)))]

\* sliders: `min_interest or 0`, `top_n or 10`
DefaultTopN == 10
OrDefault(v, d) == IF v = 0 THEN d ELSE v

update_time_series(time_json) ==
    IF time_json = PyNone THEN EmptyFigure
    ELSE OrEmpty(plot_interest_over_time(read_json(time_json)))

update_region_map(region_json) ==
    IF region_json = PyNone THEN EmptyFigure
    ELSE OrEmpty(plot_interest_map(read_json(region_json)))

\* the orders sort_values may give the rows that lines 329-331 keep; the
\* empty order alone where update_top_regions returns before sorting
SortOrders(region_json, time_json, min_interest) ==
    IF region_json = PyNone \/ time_json = PyNone THEN {<<>>}
    ELSE LET region_df == read_json(region_json)
             time_df == read_json(time_json)
         IN IF Len(time_df.columns) = 0 THEN {<<>>}
            ELSE LET first_keyword == time_df.columns[1] IN
                 IF first_keyword \notin Range(region_df.columns) THEN {<<>>}
                 ELSE LET k == CHOOSE i \in 1..Len(region_df.columns) :
                                   region_df.columns[i] = first_keyword
                          keep == RowsAtLeast(region_df, k, OrDefault(min_interest, 0))
                      IN SortDescending(region_df, k, keep)

\* update_top_regions, when sort_values puts the kept rows in order `order`
update_top_regions(region_json, time_json, min_interest, top_n, order) ==
    IF region_json = PyNone \/ time_json = PyNone THEN EmptyFigure
    ELSE LET region_df == read_json(region_json)
             time_df == read_json(time_json)
         IN IF Len(time_df.columns) = 0 THEN EmptyFigure
            ELSE LET first_keyword == time_df.columns[1] IN
                 IF first_keyword \notin Range(region_df.columns) THEN EmptyFigure
                 ELSE LET k == CHOOSE i \in 1..Len(region_df.columns) :
                                   region_df.columns[i] = first_keyword
                          fr == Head_n(TakeRows(region_df, order),
                                       OrDefault(top_n, DefaultTopN))
                      IN IF IsEmpty(fr) THEN EmptyFigure
                         ELSE LET renamed == Append(first_keyword, "_interest")
                                  shown == [fr EXCEPT !.columns[k] = renamed]
                              IN OrEmpty(plot_top_regions(shown, renamed))

NoteTop == "Showing top related queries."
NoteRising == "'Top' not available for this combo - showing rising queries instead."
NoteNone == "No related queries available for this keyword/timeframe/region."

Table(columns, data, note) == [columns |-> columns, data |-> data, note |-> note]

update_related_table(related_json) ==
    IF related_json = PyNone THEN Table(<<>>, <<>>, "")
    ELSE LET top_json == related_json.top
             rising_json == related_json.rising
         IN IF top_json = PyNone /\ rising_json = PyNone
            THEN Table(<<>>, <<>>, NoteNone)
            ELSE LET df == IF top_json # PyNone THEN read_json(top_json)
                           ELSE read_json(rising_json)
                     note == IF top_json # PyNone THEN NoteTop ELSE NoteRising
                 IN IF IsEmpty(df) THEN Table(<<>>, <<>>, NoteNone)
                    ELSE Table(df.columns, df.data, note)

\* reset_index().rename(columns={"index": "Date"}), then to_csv
download_time_csv(time_json) ==
    IF time_json = PyNone THEN PyNone
    ELSE LET df == read_json(time_json) IN
         [t |-> "download", filename |-> "interest_over_time.csv",
          header |-> <<<<"Date">>>> \o df.columns,
          lines |-> [r \in 1..Len(df.data) |-> <<df.index[r]>> \o df.data[r]]]

\* a render callback runs: it reads the Stores and writes its own Output.
\* It shares no variable with a running run_analysis, so it is taken between
\* two runs.
Rendered(cb) ==
    /\ ra.pc = "idle"
    /\ cb \in pending
    /\ pending' = pending \ {cb}
    /\ UNCHANGED <<n_clicks, ra, storeVars, alertVars, provider_calls,
                   sliderVars, data_service, kwVars, ccVars, gwVars>>

UpdateTimeSeries ==
    /\ Rendered("update_time_series")
    /\ time_series_figure' = update_time_series(store_time_df)
    /\ UNCHANGED <<region_map_figure, top_regions_figure, related_table,
                   download_csv>>

UpdateRegionMap ==
    /\ Rendered("update_region_map")
    /\ region_map_figure' = update_region_map(store_region_df)
    /\ UNCHANGED <<time_series_figure, top_regions_figure, related_table,
                   download_csv>>

UpdateTopRegions ==
    /\ Rendered("update_top_regions")
    /\ \E order \in SortOrders(store_region_df, store_time_df,
                                min_interest_slider) :
          top_regions_figure' =
             update_top_regions(store_region_df, store_time_df,
                                min_interest_slider, topn_slider, order)
    /\ UNCHANGED <<time_series_figure, region_map_figure, related_table,
                   download_csv>>

\* update_related_table asking the Gateway again instead of reading the Store
UpdateRelatedTableRefetch ==
    /\ ra.pc = "idle"
    /\ "update_related_table" \in pending
    /\ pending' = pending \ {"update_related_table"}
    /\ \E b \in BuildReplies, o \in RelatedReplies :
          LET r == get_related_frames(data_service, b, o, n_clicks) IN
          /\ provider_calls' = provider_calls \o r.calls
          /\ related_table' =
                IF r.raised THEN Table(<<>>, <<>>, NoteNone)
                ELSE update_related_table(
                        RelatedJson(JsonOrNone(r.ret.top), JsonOrNone(r.ret.rising)))
    /\ UNCHANGED <<n_clicks, ra, storeVars, alertVars, sliderVars, data_service,
                   kwVars, ccVars, gwVars, time_series_figure,
                   region_map_figure, top_regions_figure, download_csv>>

UpdateRelatedTable ==
    /\ Rendered("update_related_table")
    /\ related_table' = update_related_table(store_related)
    /\ UNCHANGED <<time_series_figure, region_map_figure, top_regions_figure,
                   download_csv>>

\* a click on download-btn
DownloadTimeCsv ==
    /\ ra.pc = "idle"
    /\ download_csv' = download_time_csv(store_time_df)
    /\ UNCHANGED <<n_clicks, ra, storeVars, alertVars, provider_calls, pending,
                   sliderVars, data_service, kwVars, ccVars, gwVars,
                   time_series_figure, region_map_figure, top_regions_figure,
                   related_table>>

\* the values the sliders are moved between
MinInterestValues == {0, 50}
TopNValues == {5, 10}

MoveMinInterestSlider ==
    /\ ra.pc = "idle"
    /\ \E v \in MinInterestValues \ {min_interest_slider} :
          min_interest_slider' = v
    /\ UNCHANGED <<topn_slider, n_clicks, ra, storeVars, alertVars,
                   provider_calls, pending, outputVars, data_service,
                   kwVars, ccVars, gwVars>>

MoveTopNSlider ==
    /\ ra.pc = "idle"
    /\ \E v \in TopNValues \ {topn_slider} : topn_slider' = v
    /\ UNCHANGED <<min_interest_slider, n_clicks, ra, storeVars, alertVars,
                   provider_calls, pending, outputVars, data_service,
                   kwVars, ccVars, gwVars>>

----------------------------------------------------------------------------
(* Specification of the dashboard: one browser session *)

\* the page as served: Stores empty, alert closed, sliders at their defaults,
\* and every render callback about to make its initial call
InitApp ==
    /\ n_clicks = 0
    /\ ra = NoActivation
    /\ store_time_df = PyNone
    /\ store_region_df = PyNone
    /\ store_related = PyNone
    /\ alert_is_open = FALSE
    /\ alert_children = <<>>
    /\ provider_calls = <<>>
    /\ pending = RenderCallbacks
    /\ time_series_figure = PyNone
    /\ region_map_figure = PyNone
    /\ top_regions_figure = PyNone
    /\ related_table = PyNone
    /\ download_csv = PyNone
    /\ min_interest_slider = 0
    /\ topn_slider = 10

----------------------------------------------------------------------------

vars == <<kwVars, ccVars, data_service, gwVars, appVars>>

InitK == InitKeywords /\ IdleCountry /\ InitGateway /\ InitApp
NextKeywords == ParseKeywords
SpecKeywords == InitK /\ [][NextKeywords]_vars

InitC == IdleKeywords /\ InitCountry /\ InitGateway /\ InitApp
NextCountry == ResolveCountry
SpecCountry == InitC /\ [][NextCountry]_vars

InitG == IdleKeywords /\ IdleCountry /\ InitGateway /\ InitApp
NextGateway ==
    \/ SetQuery
    \/ FetchInterestOverTime
    \/ GetInterestByRegion
    \/ GetRelatedQueries
    \/ GetRelatedFrames
SpecGateway == InitG /\ [][NextGateway]_vars

Init == IdleKeywords /\ IdleCountry /\ InitGateway /\ InitApp
Next ==
    \/ RunAnalysisBegin
    \/ RunAnalysisFetchTime
    \/ RunAnalysisFetchRegion
    \/ RunAnalysisFinish
Spec == Init /\ [][Next]_vars

\* a page session: the renders triggered by a Store write are over before the
\* next click on Analyze
NextDashboard ==
    \/ (pending = {} /\ n_clicks < MaxRenderedClicks /\ RunAnalysisBegin)
    \/ RunAnalysisFetchTime
    \/ RunAnalysisFetchRegion
    \/ RunAnalysisFinish
    \/ UpdateTimeSeries
    \/ UpdateRegionMap
    \/ UpdateTopRegions
    \/ UpdateRelatedTable
    \/ DownloadTimeCsv
    \/ MoveMinInterestSlider
    \/ MoveTopNSlider
SpecDashboard == Init /\ [][NextDashboard]_vars

\* the Stores after an analysis of keyword "a", for the top-regions chart: a
\* region table of up to MaxRegions rows with scores, or none; the time
\* table, or none (and then no region table either); or a region table
\* without the column of the time table's first keyword
RegionScores == {20, 50, 100}
RegionNames == <<"Ghana", "Nigeria", "Kenya", "Togo", "Mali", "Chad", "Niger", "Benin">>
RegionJson(scores) ==
    to_json(DataFrame(<<KwA>>, SubSeq(RegionNames, 1, Len(scores)),
                      [r \in 1..Len(scores) |-> <<scores[r]>>], 1))
TimeJson(keyword) ==
    to_json(DataFrame(<<keyword>>, <<"2024-01-07">>, <<<<50>>>>, 1))
RegionStores ==
    UNION {{RegionJson(scores) : scores \in [1..n -> RegionScores]} :
             n \in 1..MaxRegions}
StoredPairs ==
    {[time |-> PyNone, region |-> PyNone], [time |-> TimeJson(KwA), region |-> PyNone]}
    \cup {[time |-> TimeJson(k), region |-> r] : k \in {KwA, KwB}, r \in RegionStores}

\* the page after one analysis, update_top_regions about to run
InitTopRegions ==
    /\ IdleKeywords /\ IdleCountry /\ IdleGateway
    /\ data_service = set_query(<<KwA>>, DefaultTimeframe, <<>>)
    /\ n_clicks = 1
    /\ ra = NoActivation
    /\ \E s \in StoredPairs :
          /\ store_time_df = s.time
          /\ store_region_df = s.region
          /\ store_related = IF s.time = PyNone THEN PyNone
                             ELSE RelatedJson(PyNone, PyNone)
          /\ alert_is_open = (s.time = PyNone)
          /\ alert_children = IF s.time = PyNone
                              THEN MsgWrong \o ErrorOf("interest_over_time")
                              ELSE <<>>
    /\ provider_calls = <<>>
    /\ pending = {"update_top_regions"}
    /\ time_series_figure = PyNone
    /\ region_map_figure = PyNone
    /\ top_regions_figure = PyNone
    /\ related_table = PyNone
    /\ download_csv = PyNone
    /\ min_interest_slider \in MinInterestValues
    /\ topn_slider \in TopNValues

NextTopRegions == UpdateTopRegions
SpecTopRegions == InitTopRegions /\ [][NextTopRegions]_vars

\* one fetch cycle, with other requests served by the same process meanwhile
NextShared ==
    \/ (n_clicks < MaxRenderedClicks /\ RunAnalysisBegin)
    \/ RunAnalysisFetchTime
    \/ RunAnalysisFetchRegion
    \/ RunAnalysisFinish
    \/ PeerRunAnalysisBegin
SpecShared == Init /\ [][NextShared]_vars

\* the related-queries path: the fetch cycle and the table that shows its bundle
NextRelated ==
    \/ (n_clicks < MaxRenderedClicks /\ RunAnalysisBegin)
    \/ RunAnalysisFetchTime
    \/ RunAnalysisFetchRegion
    \/ RunAnalysisFinishObserved
    \/ UpdateRelatedTable
SpecRelated == Init /\ [][NextRelated]_vars
----------------------------------------------------------------------------
(* Properties of the keyword normaliser, under SpecKeywords *)

\* the comma-separated tokens of raw, each with whitespace and then quote
\* characters trimmed
CleanedTokens(raw) ==
    IF Falsy(raw) THEN <<>>
    ELSE LET tokens == Split(raw, ",")
         IN [i \in 1..Len(tokens) |-> CleanToken(tokens[i])]

\* the tokens that survive cleaning
Surviving(raw) == {p \in Range(CleanedTokens(raw)) : p # <<>>}

\* where x first occurs in parts
FirstAt(parts, x) ==
    CHOOSE i \in 1..Len(parts) : parts[i] = x /\ \A j \in 1..(i - 1) : parts[j] # x

\* C1: _parse_keywords returns at most 5 entries, without duplicates, none
\* empty or whitespace-only, and they are the surviving tokens in the order
\* of their first occurrence in the input.
C1_ParseKeywordsContract ==
    kw_pc = "parsed" =>
      LET parts == CleanedTokens(kw_raw) IN
      /\ Len(kw_list) <= MaxKeywords
      /\ \A i, j \in 1..Len(kw_list) : i # j => kw_list[i] # kw_list[j]
      /\ \A i \in 1..Len(kw_list) : Strip(kw_list[i], Whitespace) # <<>>
      /\ Range(kw_list) \subseteq Surviving(kw_raw)
      /\ \A i, j \in 1..Len(kw_list) :
            i < j => FirstAt(parts, kw_list[i]) < FirstAt(parts, kw_list[j])
      /\ \A p \in Surviving(kw_raw) \ Range(kw_list) :
            /\ Len(kw_list) = MaxKeywords
            /\ FirstAt(parts, p) > FirstAt(parts, kw_list[MaxKeywords])

\* C2: the truncation flag is true exactly when the input holds more than 5
\* distinct non-empty keywords after cleaning.
C2_TrimmedIffTruncated ==
    kw_pc = "parsed" =>
      (kw_trimmed <=> Cardinality(Surviving(kw_raw)) > MaxKeywords)

----------------------------------------------------------------------------
(* Properties of the country resolver, under SpecCountry *)

\* C3: get_country_code never raises; empty input or a failed lookup gives
\* ""; a trimmed input of exactly 2 alphabetic characters comes back
\* upper-cased and the database is not consulted; otherwise the result is the
\* alpha-2 code of the country the database finds for the trimmed input.
C3_CountryCodeTotal ==
    cc_pc = "returned" =>
      LET s == Strip(cc_input, Whitespace) IN
      /\ ~cc_raised
      /\ Falsy(cc_input) => cc_ret = <<>> /\ cc_lookups = <<>>
      /\ (~Falsy(cc_input) /\ Len(s) = 2 /\ \A i \in 1..2 : s[i] \in AlphaChars)
            => /\ cc_lookups = <<>>
               /\ Len(cc_ret) = 2
               /\ \A i \in 1..2 : cc_ret[i] = UpperChar(s[i])
      /\ (~Falsy(cc_input) /\ ~(Len(s) = 2 /\ \A i \in 1..2 : s[i] \in AlphaChars))
            => /\ Len(cc_lookups) = 1
               /\ cc_lookups[1].arg = s
               /\ cc_lookups[1].outcome.found
                     => cc_ret = cc_lookups[1].outcome.alpha_2
               /\ ~cc_lookups[1].outcome.found => cc_ret = <<>>

\* a lookup that failed, answered with ""
C3_Witness ==
    /\ cc_pc = "returned"
    /\ cc_lookups # <<>>
    /\ ~cc_lookups[1].outcome.found
    /\ cc_ret = <<>>
    /\ ~cc_raised

----------------------------------------------------------------------------
(* Properties of the Gateway, under SpecGateway *)

FetchOps ==
    {"fetch_interest_over_time", "get_interest_by_region",
     "get_related_queries", "get_related_frames"}

\* C4: with no keywords stored, the fetch operations make no provider call
\* (build_payload included) and return an empty table, None, or top and
\* rising both absent.
C4_NoKeywordsNoCall ==
    (data_service.keywords = <<>> /\ gw_op \in FetchOps) =>
      /\ gw_calls = <<>>
      /\ ~gw_raised
      /\ gw_op \in {"fetch_interest_over_time", "get_interest_by_region"}
            => IsFrame(gw_ret) /\ IsEmpty(gw_ret)
      /\ gw_op = "get_related_queries" => gw_ret = PyNone
      /\ gw_op = "get_related_frames"
            => gw_ret.top = PyNone /\ gw_ret.rising = PyNone

\* a fetch with no keywords, under a provider that would have failed
C4_Witness ==
    /\ data_service.keywords = <<>>
    /\ data_service.timeframe = TimeframeYear
    /\ gw_op = "fetch_interest_over_time"
    /\ gw_env.build = "raise"
    /\ gw_calls = <<>>

\* the provider's interest_by_region call was made and raised
RegionCallRaised ==
    /\ gw_op = "get_interest_by_region"
    /\ gw_calls # <<>>
    /\ gw_calls[Len(gw_calls)].method = "interest_by_region"
    /\ gw_env.data = "raise"

\* C5: with keywords stored, if the provider's interest_by_region call
\* raises, get_interest_by_region returns an empty table and does not raise.
C5_RegionErrorGivesEmpty ==
    (data_service.keywords # <<>> /\ RegionCallRaised) =>
      /\ ~gw_raised
      /\ IsFrame(gw_ret) /\ IsEmpty(gw_ret)

C5_Witness ==
    /\ data_service.keywords = <<KwB, KwA>>
    /\ RegionCallRaised
    /\ ~gw_raised

\* C6: no fetch operation raises on a provider error, whichever provider
\* call fails (the payload build or the data request): it returns an empty
\* table or None.
C6_FetchNeverRaises ==
    (gw_op \in {"fetch_interest_over_time", "get_interest_by_region",
                "get_related_queries"}
       /\ (gw_env.build = "raise" \/ gw_env.data = "raise")) =>
      /\ ~gw_raised
      /\ gw_ret = PyNone \/ (IsFrame(gw_ret) /\ IsEmpty(gw_ret))
----------------------------------------------------------------------------
(* Properties of run_analysis and the Stores, under Spec *)

\* the data in a Store came from the requests of analysis n
FromAnalysis(slot, n) == slot = PyNone \/ slot.origin = n

\* C7: after any sequence of Analyze actions, each of the three Stores holds
\* nothing or data produced by the most recent Analyze action.
C7_StoresHoldLatestAnalysis ==
    ra.pc = "idle" =>
      /\ FromAnalysis(store_time_df, n_clicks)
      /\ FromAnalysis(store_region_df, n_clicks)
      /\ store_related # PyNone =>
            /\ FromAnalysis(store_related.top, n_clicks)
            /\ FromAnalysis(store_related.rising, n_clicks)

\* a second analysis whose data replaced that of the first
C7_Witness ==
    /\ ra.pc = "idle"
    /\ n_clicks = 2
    /\ store_time_df # PyNone
    /\ store_region_df = PyNone
    /\ store_related # PyNone
    /\ store_related.top # PyNone

\* C9: an Analyze action without keywords after parsing opens the alert with
\* the 'enter at least one keyword' message, empties the three Stores, makes
\* no provider call and leaves the Gateway's keywords, timeframe and geo as
\* they were.
C9_NoKeywordsNoFetch ==
    [][(n_clicks' = n_clicks + 1 /\ ra'.raw_list = <<>>) =>
          /\ ra'.pc = "idle"
          /\ alert_is_open'
          /\ alert_children' = MsgNoKeywords
          /\ store_time_df' = PyNone
          /\ store_region_df' = PyNone
          /\ store_related' = PyNone
          /\ provider_calls' = <<>>
          /\ data_service' = data_service]_vars

\* an analysis without keywords, after one that had stored a query
C9_Witness ==
    /\ ra.pc = "idle"
    /\ n_clicks = 2
    /\ ra.raw_list = <<>>
    /\ data_service.keywords # <<>>
    /\ data_service.geo = NG
    /\ alert_children = MsgNoKeywords

\* text e occurs in message msg
ContainsText(msg, e) ==
    \E i \in 1..(Len(msg) - Len(e) + 1) : SubSeq(msg, i, i + Len(e) - 1) = e

\* C10: run_analysis never lets an exception out: if a step of the fetch
\* cycle raises, it returns with the three Stores empty and the alert open
\* on a message that contains the error text.
C10_ExceptionsBecomeAlert ==
    /\ ~ra.propagated
    /\ (ra.pc = "idle" /\ ra.exc # <<>>) =>
          /\ store_time_df = PyNone
          /\ store_region_df = PyNone
          /\ store_related = PyNone
          /\ alert_is_open
          /\ ContainsText(alert_children, ra.exc)
          /\ alert_children # ra.exc

\* the payload build of the third fetch failed, after two fetches went well
C10_Witness ==
    /\ ra.pc = "idle"
    /\ ra.exc = ErrorOf("build_payload")
    /\ Len(provider_calls) = 5
    /\ alert_is_open

----------------------------------------------------------------------------
(* Properties of the render callbacks, under SpecDashboard *)

DataMethods == {"interest_over_time", "interest_by_region", "related_queries"}

\* the requests for data kind m in the latest fetch cycle
RequestsOf(m) ==
    Cardinality({i \in 1..Len(provider_calls) : provider_calls[i].method = m})

\* a step of a render callback or of the CSV download
RenderStep ==
    \/ pending' # pending /\ pending' \subseteq pending
    \/ outputVars' # outputVars

\* C8: one Analyze action makes at most one provider request per data kind,
\* and the render steps and the CSV download make no provider request and
\* write no Store, however often and in whatever order they run.
C8_FetchOnceRenderMany ==
    /\ [](\A m \in DataMethods : RequestsOf(m) <= 1)
    /\ [][RenderStep => UNCHANGED <<storeVars, provider_calls>>]_vars

\* every render and a download done on the data of one analysis
C8_Witness ==
    /\ n_clicks = 1
    /\ pending = {}
    /\ Len(provider_calls) = 6
    /\ time_series_figure.t = "figure"
    /\ top_regions_figure.t = "figure"
    /\ related_table.note = NoteRising
    /\ download_csv # PyNone

----------------------------------------------------------------------------
(* Properties of the fetch cycle's outcome, under Spec *)

\* the step ends an analysis, at position pc, whose time-series fetch had
\* returned a table with rows, and no to_json call failed
EndsWithTimeData(pc) ==
    /\ ra.pc = pc
    /\ ra'.pc = "idle"
    /\ IsFrame(ra.time_df) /\ ~IsEmpty(ra.time_df)
    /\ ra'.exc # ErrorToJson

\* C11: when the time-series fetch returned a non-empty table, store-time-df
\* is populated with it whatever the provider does during the region fetch or
\* the related-queries fetch, and the kind that failed is stored as absent.
C11_OneKindFailureIsolated ==
    [][/\ EndsWithTimeData("fetch_region") =>
            /\ store_time_df' = to_json(ra.time_df)
            /\ store_region_df' = PyNone
       /\ EndsWithTimeData("fetch_related") =>
            /\ store_time_df' = to_json(ra.time_df)
            /\ IsEmpty(ra.region_df) => store_region_df' = PyNone
            /\ ra'.exc # <<>> =>
                  /\ store_related' # PyNone
                  /\ store_related'.top = PyNone
                  /\ store_related'.rising = PyNone]_vars

----------------------------------------------------------------------------
(* Properties of the related-queries table, under SpecRelated *)

\* the table update_related_table has shown is that of the bundle stored by
\* the latest fetch cycle
ShowsStoredBundle ==
    /\ ra.pc = "idle"
    /\ gw_op = "get_related_frames"
    /\ store_related # PyNone
    /\ "update_related_table" \notin pending

\* the rows and note to show for a table of the provider's bucket
Shown(df, note) == Table(df.columns, df.data, note)

\* C12: the table shows the top rows with the 'showing top' note when top has
\* rows; otherwise the rising rows with the 'showing rising queries instead'
\* note when rising has rows, also when the provider returned top present but
\* empty; otherwise nothing, with the 'no related queries available' note.
C12_TopThenRisingThenNone ==
    ShowsStoredBundle =>
      LET top == gw_env.top
          rising == gw_env.rising
      IN /\ top = "rows" =>
              related_table = Shown(RelatedTable("rows", n_clicks), NoteTop)
         /\ (top # "rows" /\ rising = "rows") =>
              related_table = Shown(RisingTable("rows", n_clicks), NoteRising)
         /\ (top # "rows" /\ rising # "rows") =>
              related_table = Table(<<>>, <<>>, NoteNone)

\* top came back present but empty, rising with rows: the rising rows show
C12_Witness ==
    /\ ShowsStoredBundle
    /\ gw_env.top = "empty"
    /\ gw_env.rising = "rows"
    /\ related_table.note = NoteRising
    /\ related_table.data # <<>>

----------------------------------------------------------------------------
(* Properties of the top-regions chart, under SpecTopRegions *)

\* update_top_regions has run on the Stores
TopRegionsShown == "update_top_regions" \notin pending

\* the region table has the column of the time table's first keyword
HasKeywordColumn ==
    /\ store_region_df # PyNone
    /\ store_time_df # PyNone
    /\ store_time_df.columns[1] \in Range(store_region_df.columns)

\* the score of row r of the region table for the first keyword
Score(r) ==
    LET k == CHOOSE i \in 1..Len(store_region_df.columns) :
                 store_region_df.columns[i] = store_time_df.columns[1]
    IN store_region_df.data[r][k]

\* the rows of the region table that meet the threshold
Qualifying ==
    {r \in 1..Len(store_region_df.data) : Score(r) >= min_interest_slider}

\* C13: the rows update_top_regions passes to the bar chart number at most n,
\* all have first-keyword interest >= m, are in descending order of it, and
\* are the n highest among the rows meeting the threshold; with an empty
\* region or time Store, without the first keyword's column, or without a row
\* meeting the threshold, there is no figure.
C13_TopRegionsRows ==
    TopRegionsShown =>
      IF ~HasKeywordColumn \/ Qualifying = {}
      THEN top_regions_figure = EmptyFigure
      ELSE LET x == top_regions_figure.x
               y == top_regions_figure.y
           IN /\ top_regions_figure.t = "figure"
              /\ Len(x) = Len(y)
              /\ Len(y) = Min(topn_slider, Cardinality(Qualifying))
              /\ \A i \in 1..Len(y) : y[i] >= min_interest_slider
              /\ \A i \in 1..(Len(y) - 1) : y[i] >= y[i + 1]
              /\ \A i, j \in 1..Len(x) : i # j => x[i] # x[j]
              /\ \A i \in 1..Len(x) :
                    \E r \in Qualifying :
                       store_region_df.index[r] = x[i] /\ Score(r) = y[i]
              /\ \A r \in Qualifying :
                    store_region_df.index[r] \notin Range(x)
                       => Score(r) <= y[Len(y)]

\* six regions, five bars: a region with the lowest score is left out, and
\* two bars tie
C13_Witness ==
    /\ TopRegionsShown
    /\ HasKeywordColumn
    /\ Len(store_region_df.data) = 6
    /\ min_interest_slider = 0
    /\ topn_slider = 5
    /\ top_regions_figure.t = "figure"
    /\ Len(top_regions_figure.y) = 5
    /\ top_regions_figure.y[1] = 100
    /\ top_regions_figure.y[4] = 20
    /\ top_regions_figure.y[5] = 20
    /\ top_regions_figure.x[5] = "Ghana"

----------------------------------------------------------------------------
(* Properties of the outcome of an analysis, under Spec *)

\* the step ends an analysis that had keywords and raised no exception
EndsWithoutException ==
    /\ ra.pc = "fetch_related"
    /\ ra'.pc = "idle"
    /\ ra'.exc = <<>>

\* the alert shows the 'no trend data' message
NoDataAlert(is_open, children) == is_open /\ ContainsText(children, MsgNoData)

\* C14: for an analysis with keywords and without exception, the 'no trend
\* data' alert opens exactly when the time-series table is empty; with a
\* non-empty time-series table store-time-df is populated and the alert, if
\* open, is the notice about the first 5 keywords, whatever the region table
\* and the related bundle hold; with an empty one store-time-df and
\* store-region-df are both stored empty.
C14_TimeSeriesDecides ==
    [][EndsWithoutException =>
          /\ NoDataAlert(alert_is_open', alert_children') <=> IsEmpty(ra.time_df)
          /\ ~IsEmpty(ra.time_df) =>
                /\ store_time_df' = to_json(ra.time_df)
                /\ alert_is_open' =>
                      /\ ra.trimmed
                      /\ alert_children' = <<"i ">> \o MsgTrimmed
          /\ IsEmpty(ra.time_df) =>
                /\ store_time_df' = PyNone
                /\ store_region_df' = PyNone]_vars

\* time-series data, no region table, neither top nor rising: no alert
C14_Witness ==
    /\ ra.pc = "idle"
    /\ n_clicks > 0
    /\ ra.exc = <<>>
    /\ store_time_df # PyNone
    /\ store_region_df = PyNone
    /\ store_related # PyNone
    /\ store_related.top = PyNone
    /\ store_related.rising = PyNone
    /\ ~alert_is_open

----------------------------------------------------------------------------
(* Properties of the sliders, under SpecDashboard *)

\* the charts update_top_regions derives from the Stores with the sliders as
\* they are now
DerivedTopRegions ==
    {update_top_regions(store_region_df, store_time_df, min_interest_slider,
                        topn_slider, order) :
        order \in SortOrders(store_region_df, store_time_df, min_interest_slider)}

\* C15: every change of a slider triggers a re-derivation of the top-regions
\* chart from the cached tables with the new slider values: once every
\* triggered callback has run, the chart is the one derived from the Stores
\* and the current slider values.
C15_SlidersRederiveChart ==
    (ra.pc = "idle" /\ pending = {}) => top_regions_figure \in DerivedTopRegions

----------------------------------------------------------------------------
(* Properties of the query of a fetch cycle, under SpecShared *)

\* 1 to 5 keywords, unique and non-empty
QueryKeywordsValid(keywords) ==
    /\ Len(keywords) \in 1..MaxKeywords
    /\ \A i \in 1..Len(keywords) : keywords[i] # <<>>
    /\ \A i, j \in 1..Len(keywords) : i # j => keywords[i] # keywords[j]

\* provider call c carries query q
Carries(c, q) ==
    /\ c.kw_list = q.keywords
    /\ c.timeframe = q.timeframe
    /\ c.geo = q.geo

\* C16: within a fetch cycle the Gateway's stored query is the one the
\* cycle's own set_query stored, from set_query to the cycle's last provider
\* request, and every payload and request of the cycle carries its keywords
\* (1 to 5, unique, non-empty), timeframe and geo.
C16_QueryStableWithinCycle ==
    /\ [](ra.pc # "idle" =>
            /\ QueryKeywordsValid(ra.query.keywords)
            /\ ra.query.keywords = ra.raw_list
            /\ data_service = ra.query)
    /\ [][ra.pc # "idle" =>
            \A i \in (Len(provider_calls) + 1)..Len(provider_calls') :
               Carries(provider_calls'[i], ra.query)]_vars
====
